---------------------------- MODULE Spec2Model ----------------------------
(***************************************************************************)
(* A model of BlockGame's engineering core: the 16x16x16 voxel chunk and   *)
(* its culled-face mesher (src/src/chunk.rs), the packing of the six face  *)
(* lists into one 256-aligned buffer (Game::new in src/src/game.rs), the   *)
(* PGA motor / point algebra (src/src/math.rs) and the camera update       *)
(* (Game::update in src/src/game.rs).                                      *)
(***************************************************************************)
EXTENDS Integers, Sequences, FiniteSets, TLC

VARIABLES
    pc,           \* where the run is: "chunk" while the chunk is filled, then
                  \* "pack" and "done" (Game::new); "algebra", "running"; and
                  \* "queried" once a pure function was called
    blocks,       \* Chunk::blocks, blocks[x][y][z]
    faces,        \* the Faces value returned by generate_faces
    buffer,       \* the Vec<u8> the face! macro grows: its length and written blocks
    face_infos,   \* Game::face_infos
    composed,     \* a Motor built by composing motors
    camera,       \* Game::camera
    pressed_keys, \* Game::pressed_keys
    focus,        \* history: "lost" once lost_focus has run, "lost_updated" once
                  \* update has run after it, "focused" again when a key is pressed
    ticks,        \* the number of compositions, or of Game::update calls, so far
    call          \* the last call: its name, arguments and result

vars ==
    <<pc, blocks, faces, buffer, face_infos, composed, camera, pressed_keys, focus,
      ticks, call>>

newVars == <<blocks, faces, buffer, face_infos>>

gameVars == <<camera, pressed_keys, focus>>

(***************************************************************************)
(* Option<T>                                                               *)
(***************************************************************************)
None == [some |-> FALSE]

Some(v) == [some |-> TRUE, value |-> v]

(***************************************************************************)
(* f32 values.  The arithmetic of math.rs and of Game::update is modelled  *)
(* exactly, over the numbers (a + b*sqrt2 + c*sqrt3 + d*sqrt6) / n with    *)
(* integer a, b, c, d and n > 0, written <<a, b, c, d, n>> in lowest       *)
(* terms: the field that holds the rationals and the square roots that     *)
(* normalising a sum of unit axis vectors produces.  The three values      *)
(* that an IEEE division by zero produces have n = 0.                      *)
(***************************************************************************)
Abs(k) == IF k < 0 THEN -k ELSE k

RECURSIVE GCD(_, _)
GCD(m, n) == IF n = 0 THEN m ELSE GCD(n, m % n)

Norm(x) ==
    LET g0 == GCD(GCD(GCD(GCD(Abs(x[5]), Abs(x[1])), Abs(x[2])), Abs(x[3])), Abs(x[4]))
        g == IF x[5] < 0 THEN -g0 ELSE g0
    IN  <<x[1] \div g, x[2] \div g, x[3] \div g, x[4] \div g, x[5] \div g>>

\* the rational p / q, q # 0
R(p, q) == Norm(<<p, 0, 0, 0, q>>)

Zero == <<0, 0, 0, 0, 1>>

One == <<1, 0, 0, 0, 1>>

Inf == <<1, 0, 0, 0, 0>>

NegInf == <<-1, 0, 0, 0, 0>>

NaN == <<0, 0, 0, 0, 0>>

IsFinite(x) == x[5] # 0

Neg(x) == <<-x[1], -x[2], -x[3], -x[4], x[5]>>

Add(x, y) ==
    IF x[5] = y[5]
    THEN Norm(<<x[1] + y[1], x[2] + y[2], x[3] + y[3], x[4] + y[4], x[5]>>)
    ELSE Norm(<<x[1] * y[5] + y[1] * x[5], x[2] * y[5] + y[2] * x[5],
                x[3] * y[5] + y[3] * x[5], x[4] * y[5] + y[4] * x[5], x[5] * y[5]>>)

Sub(x, y) == Add(x, Neg(y))

Mul(x, y) ==
    Norm(<<x[1] * y[1] + 2 * x[2] * y[2] + 3 * x[3] * y[3] + 6 * x[4] * y[4],
           x[1] * y[2] + x[2] * y[1] + 3 * (x[3] * y[4] + x[4] * y[3]),
           x[1] * y[3] + x[3] * y[1] + 2 * (x[2] * y[4] + x[4] * y[2]),
           x[1] * y[4] + x[4] * y[1] + x[2] * y[3] + x[3] * y[2],
           x[5] * y[5]>>)

SignInt(k) == IF k > 0 THEN 1 ELSE IF k < 0 THEN -1 ELSE 0

\* the sign of u + v*sqrt(r) for integers u, v and r in {2, 3}
SignRoot(u, v, r) ==
    IF SignInt(u) * SignInt(v) >= 0
    THEN (IF u # 0 THEN SignInt(u) ELSE SignInt(v))
    ELSE IF u * u > r * v * v THEN SignInt(u) ELSE SignInt(v)

\* the sign of a finite number: (a + b*sqrt2) + (c + d*sqrt2)*sqrt3
Sign(x) ==
    LET sp == SignRoot(x[1], x[2], 2)
        sq == SignRoot(x[3], x[4], 2)
        \* p^2 - 3 q^2 = u + v*sqrt2
        u == x[1] * x[1] + 2 * x[2] * x[2] - 3 * (x[3] * x[3] + 2 * x[4] * x[4])
        v == 2 * x[1] * x[2] - 6 * x[3] * x[4]
    IN  IF sp * sq >= 0
        THEN (IF sp # 0 THEN sp ELSE sq)
        ELSE IF SignRoot(u, v, 2) > 0 THEN sp ELSE sq

Gt(x, y) == Sign(Sub(x, y)) > 0

\* 1 / x for finite x # 0: the common factor g of the numerators is taken
\* out, and the rest is inverted by the two conjugations of the field
Inv(x) ==
    LET g == GCD(GCD(GCD(Abs(x[1]), Abs(x[2])), Abs(x[3])), Abs(x[4]))
        y == <<x[1] \div g, x[2] \div g, x[3] \div g, x[4] \div g, 1>>
        c3 == <<y[1], y[2], -y[3], -y[4], 1>>
        m == Mul(y, c3)
        c2 == <<m[1], -m[2], 0, 0, 1>>
        q == Mul(m, c2)
    IN  Mul(Mul(Mul(c3, c2), R(1, q[1])), R(x[5], g))

\* f32 division: x / 0 is an infinity, or NaN when x is 0 too
FDiv(x, y) ==
    IF y = Zero
    THEN (IF Sign(x) > 0 THEN Inf ELSE IF Sign(x) < 0 THEN NegInf ELSE NaN)
    ELSE Mul(x, Inv(y))

\* the largest s with s * s dividing m
SquarePart(m) == CHOOSE s \in 1 .. m : m % (s * s) = 0 /\ \A t \in (s + 1) .. m : m % (t * t) # 0

\* f32::sqrt of a rational p / q >= 0 whose square-free part is 1, 2, 3 or 6
Sqrt(x) ==
    IF x[1] = 0 THEN Zero
    ELSE LET m == x[1] * x[5]
             s == SquarePart(m)
             t == m \div (s * s)
         IN  CASE t = 1 -> Norm(<<s, 0, 0, 0, x[5]>>)
               [] t = 2 -> Norm(<<0, s, 0, 0, x[5]>>)
               [] t = 3 -> Norm(<<0, 0, s, 0, x[5]>>)
               [] t = 6 -> Norm(<<0, 0, 0, s, x[5]>>)

(***************************************************************************)
(* chunk.rs: Block, Faces, Chunk                                           *)
(***************************************************************************)
Air == "Air"

Stone == "Stone"

Block == {Air, Stone}

\* the length of each of the three nested arrays of Chunk::blocks
ChunkSize == 16

Coords == 0 .. (ChunkSize - 1)

U8Max == 255

\* Faces::default(): six empty Vecs
FacesDefault ==
    [front |-> <<>>, back |-> <<>>, left |-> <<>>, right |-> <<>>,
     top |-> <<>>, bottom |-> <<>>]

\* the chunk Game::new starts from: every cell Air
AllAir == [x \in Coords |-> [y \in Coords |-> [z \in Coords |-> Air]]]

\* <[T]>::get(i) on one of the nested arrays
ArrayGetWrapped(arr, i) == Some(arr[i % ChunkSize])

ArrayGet(arr, i) == IF i \in DOMAIN arr THEN Some(arr[i]) ELSE None

\* Option::and_then with a closure that indexes the next array level
AndThenGet(opt, i) == IF opt.some THEN ArrayGet(opt.value, i) ELSE None

\* Chunk::get_block
get_block(b, x, y, z) == AndThenGet(AndThenGet(ArrayGet(b, x), y), z)

\* u8::checked_add / u8::checked_sub
checked_add_no_step(a, n) == Some(a)

checked_add(a, n) == IF a + n > U8Max THEN None ELSE Some(a + n)

checked_sub_saturating(a, n) == IF a - n < 0 THEN Some(0) ELSE Some(a - n)

checked_sub(a, n) == IF a - n < 0 THEN None ELSE Some(a - n)

\* .map_or(true, |block| matches!(block, Block::Air))
MapOrFalseIsAir(opt) == opt.some /\ opt.value = Air

MapOrTrueIsAir(opt) == IF opt.some THEN opt.value = Air ELSE TRUE

\* Vec::push
PushFront(list, e) == <<e>> \o list

Push(list, e) == Append(list, e)

\* the six neighbour queries of generate_faces, each
\* c.checked_op(1).and_then(|c| self.get_block(..))
NeighbourX(b, cx, y, z) == IF cx.some THEN get_block(b, cx.value, y, z) ELSE None

NeighbourY(b, x, cy, z) == IF cy.some THEN get_block(b, x, cy.value, z) ELSE None

NeighbourZ(b, x, y, cz) == IF cz.some THEN get_block(b, x, y, cz.value) ELSE None

\* the body of the innermost loop of generate_faces
VisitCell(b, x, y, z, f) ==
    LET position == <<x, y, z>>
        block == b[x][y][z]
    IN  IF block # Air
        THEN LET f1 == IF MapOrTrueIsAir(NeighbourX(b, checked_add(x, 1), y, z))
                       THEN [f EXCEPT !.front = Push(@, <<position, block>>)] ELSE f
                 f2 == IF MapOrTrueIsAir(NeighbourX(b, checked_sub(x, 1), y, z))
                       THEN [f1 EXCEPT !.back = Push(@, <<position, block>>)] ELSE f1
                 f3 == IF MapOrTrueIsAir(NeighbourY(b, x, checked_add(y, 1), z))
                       THEN [f2 EXCEPT !.top = Push(@, <<position, block>>)] ELSE f2
                 f4 == IF MapOrTrueIsAir(NeighbourY(b, x, checked_sub(y, 1), z))
                       THEN [f3 EXCEPT !.bottom = Push(@, <<position, block>>)] ELSE f3
                 f5 == IF MapOrTrueIsAir(NeighbourZ(b, x, y, checked_add(z, 1)))
                       THEN [f4 EXCEPT !.right = Push(@, <<position, block>>)] ELSE f4
                 f6 == IF MapOrTrueIsAir(NeighbourZ(b, x, y, checked_sub(z, 1)))
                       THEN [f5 EXCEPT !.left = Push(@, <<position, block>>)] ELSE f5
             IN  f6
        ELSE f

\* TLC hands an operator its arguments unevaluated; reading the accumulator
\* at the head of every iteration keeps the 4096 iterations from nesting.
Evaluated(f) == Len(f.front) >= 0

\* for z in 0u8..16
RECURSIVE LoopZ(_, _, _, _, _)
LoopZ(b, x, y, z, f) ==
    IF Evaluated(f) /\ z < ChunkSize
    THEN LoopZ(b, x, y, z + 1, VisitCell(b, x, y, z, f))
    ELSE f

\* for y in 0u8..16
RECURSIVE LoopY(_, _, _, _)
LoopY(b, x, y, f) ==
    IF Evaluated(f) /\ y < ChunkSize
    THEN LoopY(b, x, y + 1, LoopZ(b, x, y, 0, f))
    ELSE f

\* for x in 0u8..16
RECURSIVE LoopX(_, _, _)
LoopX(b, x, f) ==
    IF Evaluated(f) /\ x < ChunkSize
    THEN LoopX(b, x + 1, LoopY(b, x, 0, f))
    ELSE f

\* Chunk::generate_faces
generate_faces(b) == LoopX(b, 0, FacesDefault)

(***************************************************************************)
(* math.rs: Point and Motor                                                *)
(***************************************************************************)
\* cgmath::vec3
vec3(x, y, z) == [x |-> x, y |-> y, z |-> z]

\* a sum of f32 terms, added left to right
RECURSIVE Sum(_)
Sum(terms) ==
    IF Len(terms) = 1 THEN terms[1]
    ELSE Add(Sum(SubSeq(terms, 1, Len(terms) - 1)), terms[Len(terms)])

\* a product of f32 factors, multiplied left to right
RECURSIVE Prod(_)
Prod(factors) ==
    IF Len(factors) = 1 THEN factors[1]
    ELSE Mul(Prod(SubSeq(factors, 1, Len(factors) - 1)), factors[Len(factors)])

Two == R(2, 1)

\* Point::IDENTITY
PointIdentity == [e012 |-> Zero, e013 |-> Zero, e023 |-> Zero, e123 |-> One]

\* Point::transform
transform(self, motor) ==
    LET a == motor.s
        b == motor.e12
        c == motor.e13
        d == motor.e23
        e == motor.e01
        f == motor.e02
        g == motor.e03
        h == motor.e0123
        i == self.e012
        j == self.e013
        k == self.e023
        l == self.e123
        m2 == Neg(Two)
        m1 == Neg(One)
    IN  [e012 |-> Sum(<<Prod(<<m2, a, d, j>>), Prod(<<m2, a, g, l>>),
                        Prod(<<One, a, a, i>>), Prod(<<Two, a, c, k>>),
                        Prod(<<m1, d, d, i>>), Prod(<<m2, d, f, l>>),
                        Prod(<<Two, b, d, k>>), Prod(<<m2, b, h, l>>),
                        Prod(<<m2, c, e, l>>), Prod(<<One, b, b, i>>),
                        Prod(<<Two, b, c, j>>), Prod(<<m1, c, c, i>>)>>),
         e013 |-> Sum(<<Prod(<<m2, a, b, k>>), Prod(<<m1, b, b, j>>),
                        Prod(<<Two, b, c, i>>), Prod(<<Two, b, e, l>>),
                        Prod(<<One, a, a, j>>), Prod(<<Two, a, d, i>>),
                        Prod(<<Two, a, f, l>>), Prod(<<m2, c, h, l>>),
                        Prod(<<m2, d, g, l>>), Prod(<<m1, d, d, j>>),
                        Prod(<<Two, c, d, k>>), Prod(<<One, c, c, j>>)>>),
         e023 |-> Sum(<<Prod(<<m2, a, c, i>>), Prod(<<m2, a, e, l>>),
                        Prod(<<One, a, a, k>>), Prod(<<Two, a, b, j>>),
                        Prod(<<m1, c, c, k>>), Prod(<<Two, c, d, j>>),
                        Prod(<<Two, c, g, l>>), Prod(<<m2, d, h, l>>),
                        Prod(<<Two, b, f, l>>), Prod(<<m1, b, b, k>>),
                        Prod(<<Two, b, d, i>>), Prod(<<One, d, d, k>>)>>),
         e123 |-> Sum(<<Prod(<<a, a, l>>), Prod(<<b, b, l>>),
                        Prod(<<c, c, l>>), Prod(<<d, d, l>>)>>)]

\* impl From<cgmath::Vector3<f32>> for Point
PointFromVectorNoFlip(value) ==
    [e012 |-> value.z, e013 |-> value.y, e023 |-> value.x, e123 |-> One]

PointFromVector(value) ==
    [e012 |-> value.z, e013 |-> Neg(value.y), e023 |-> value.x, e123 |-> One]

\* impl From<Point> for cgmath::Vector3<f32>
VectorFromPoint(value) ==
    vec3(FDiv(value.e023, value.e123),
         FDiv(Neg(value.e013), value.e123),
         FDiv(value.e012, value.e123))

\* Motor::IDENTITY
MotorIdentity ==
    [s |-> One, e12 |-> Zero, e13 |-> Zero, e23 |-> Zero,
     e01 |-> Zero, e02 |-> Zero, e03 |-> Zero, e0123 |-> Zero]

MinusHalf == R(-1, 2)

\* Motor::translation
translation(offset) ==
    [s |-> One, e12 |-> Zero, e13 |-> Zero, e23 |-> Zero,
     e01 |-> Mul(offset.x, MinusHalf),
     e02 |-> Mul(offset.y, MinusHalf),
     e03 |-> Mul(offset.z, MinusHalf),
     e0123 |-> Zero]

\* (angle * 0.5).sin_cos() for the angles whose half-angle sine and cosine
\* are numbers of the field: the result is [sin, cos]
SampleAngles == {"0", "pi/3", "pi/2", "2pi/3", "pi"}

SinCosHalf(angle) ==
    CASE angle = "0"     -> [sin |-> Zero, cos |-> One]
      [] angle = "pi/3"  -> [sin |-> R(1, 2), cos |-> <<0, 0, 1, 0, 2>>]
      [] angle = "pi/2"  -> [sin |-> <<0, 1, 0, 0, 2>>, cos |-> <<0, 1, 0, 0, 2>>]
      [] angle = "2pi/3" -> [sin |-> <<0, 0, 1, 0, 2>>, cos |-> R(1, 2)]
      [] angle = "pi"    -> [sin |-> One, cos |-> Zero]

\* Motor::rotation_xy
rotation_xy(angle) ==
    [s |-> SinCosHalf(angle).cos, e12 |-> SinCosHalf(angle).sin, e13 |-> Zero,
     e23 |-> Zero, e01 |-> Zero, e02 |-> Zero, e03 |-> Zero, e0123 |-> Zero]

\* Motor::rotation_xz
rotation_xz(angle) ==
    [s |-> SinCosHalf(angle).cos, e12 |-> Zero, e13 |-> SinCosHalf(angle).sin,
     e23 |-> Zero, e01 |-> Zero, e02 |-> Zero, e03 |-> Zero, e0123 |-> Zero]

\* Motor::rotation_yz
rotation_yz(angle) ==
    [s |-> SinCosHalf(angle).cos, e12 |-> Zero, e13 |-> Zero,
     e23 |-> SinCosHalf(angle).sin, e01 |-> Zero, e02 |-> Zero, e03 |-> Zero,
     e0123 |-> Zero]

\* Motor::apply, one component each
apply_s_e0_not_null(x, y) ==
    Sum(<<Mul(Neg(x.e12), y.e12), Mul(Neg(x.e13), y.e13), Mul(Neg(x.e23), y.e23),
          Mul(Neg(x.e01), y.e01), Mul(x.s, y.s)>>)

apply_s(x, y) ==
    Sum(<<Mul(Neg(x.e12), y.e12), Mul(Neg(x.e13), y.e13), Mul(Neg(x.e23), y.e23),
          Mul(x.s, y.s)>>)

apply_e12(x, y) ==
    Sum(<<Mul(Neg(x.e13), y.e23), Mul(x.s, y.e12), Mul(x.e12, y.s),
          Mul(x.e23, y.e13)>>)

apply_e13(x, y) ==
    Sum(<<Mul(Neg(x.e23), y.e12), Mul(x.s, y.e13), Mul(x.e12, y.e23),
          Mul(x.e13, y.s)>>)

apply_e23(x, y) ==
    Sum(<<Mul(Neg(x.e12), y.e13), Mul(x.s, y.e23), Mul(x.e13, y.e12),
          Mul(x.e23, y.s)>>)

apply_e01_lost_term(x, y) ==
    Sum(<<Mul(Neg(x.e23), y.e0123), Mul(Neg(x.e02), y.e12), Mul(Neg(x.e03), y.e13),
          Mul(Neg(x.e0123), y.e23), Mul(x.s, y.e01), Mul(x.e12, y.e02),
          Mul(x.e13, y.e03)>>)

apply_e01(x, y) ==
    Sum(<<Mul(Neg(x.e23), y.e0123), Mul(Neg(x.e02), y.e12), Mul(Neg(x.e03), y.e13),
          Mul(Neg(x.e0123), y.e23), Mul(x.s, y.e01), Mul(x.e12, y.e02),
          Mul(x.e13, y.e03), Mul(x.e01, y.s)>>)

apply_e02(x, y) ==
    Sum(<<Mul(Neg(x.e12), y.e01), Mul(Neg(x.e03), y.e23), Mul(x.s, y.e02),
          Mul(x.e13, y.e0123), Mul(x.e23, y.e03), Mul(x.e01, y.e12),
          Mul(x.e02, y.s), Mul(x.e0123, y.e13)>>)

apply_e03(x, y) ==
    Sum(<<Mul(Neg(x.e12), y.e0123), Mul(Neg(x.e13), y.e01), Mul(Neg(x.e23), y.e02),
          Mul(Neg(x.e0123), y.e12), Mul(x.s, y.e03), Mul(x.e01, y.e13),
          Mul(x.e02, y.e23), Mul(x.e03, y.s)>>)

apply_e0123_sign_slip(x, y) ==
    Sum(<<Mul(Neg(x.e13), y.e02), Mul(Neg(x.e02), y.e13), Mul(x.s, y.e0123),
          Mul(x.e12, y.e03), Mul(x.e23, y.e01), Mul(x.e01, y.e23),
          Mul(Neg(x.e03), y.e12), Mul(x.e0123, y.s)>>)

apply_e0123(x, y) ==
    Sum(<<Mul(Neg(x.e13), y.e02), Mul(Neg(x.e02), y.e13), Mul(x.s, y.e0123),
          Mul(x.e12, y.e03), Mul(x.e23, y.e01), Mul(x.e01, y.e23),
          Mul(x.e03, y.e12), Mul(x.e0123, y.s)>>)

\* Motor::apply
apply(self, other) ==
    [s |-> apply_s(self, other), e12 |-> apply_e12(self, other),
     e13 |-> apply_e13(self, other), e23 |-> apply_e23(self, other),
     e01 |-> apply_e01(self, other), e02 |-> apply_e02(self, other),
     e03 |-> apply_e03(self, other), e0123 |-> apply_e0123(self, other)]

\* Motor::pre_apply
pre_apply(self, other) == apply(other, self)

\* Motor::inverse
inverse(self) ==
    [s |-> self.s, e12 |-> Neg(self.e12), e13 |-> Neg(self.e13),
     e23 |-> Neg(self.e23), e01 |-> Neg(self.e01), e02 |-> Neg(self.e02),
     e03 |-> Neg(self.e03), e0123 |-> self.e0123]

(***************************************************************************)
(* Bounds of the model                                                     *)
(***************************************************************************)
\* at most this many cells of the chunk are non-Air
MaxStones == 8

\* at most this many motors are composed onto Motor::IDENTITY
MaxCompose == 2

\* at most this many Game::update calls
MaxTicks == 1

\* the cells assigned in the mesher's runs: the cell (1,1,1) with its six
\* neighbours (three of them on the lower faces of the chunk), and the
\* corner (15,15,15) with one neighbour
SampleCells ==
    {<<1, 1, 1>>, <<0, 1, 1>>, <<2, 1, 1>>, <<1, 0, 1>>, <<1, 2, 1>>,
     <<1, 1, 0>>, <<1, 1, 2>>, <<15, 15, 15>>, <<14, 15, 15>>}

\* the cells Game::new assigns, and the corner (15,15,15)
NewCells ==
    {<<0, 0, 0>>, <<0, 0, 1>>, <<0, 2, 0>>, <<1, 2, 0>>, <<1, 2, 1>>, <<1, 3, 1>>,
     <<15, 15, 15>>}

StoneCount(b) ==
    Cardinality({c \in SampleCells \cup NewCells : b[c[1]][c[2]][c[3]] # Air})

(***************************************************************************)
(* game.rs: the Camera, the Face and Faces written to the buffer           *)
(***************************************************************************)
\* the window's inner size when Game::new runs
WindowSize == [width |-> 800, height |-> 600]

\* u32 as f32
F32(n) == R(n, 1)

\* the Camera of Game::new
NewCamera ==
    [transform |-> translation(vec3(R(-2, 1), Zero, Zero)),
     aspect |-> FDiv(F32(WindowSize.width), F32(WindowSize.height)),
     near_clip |-> R(1, 100),
     far_clip |-> R(100, 1)]

\* the locals of Game::new once it has returned: the chunk is dropped
NoChunk == <<>>

\* the state before any of the runs below starts, b the chunk's blocks
StartWith(b) ==
    /\ blocks = b
    /\ faces = FacesDefault
    /\ buffer = [len |-> 0, written |-> <<>>]
    /\ face_infos = <<>>
    /\ composed = MotorIdentity
    /\ camera = NewCamera
    /\ pressed_keys = {}
    /\ focus = "focused"
    /\ ticks = 0
    /\ call = [op |-> "none"]

\* Game::new before the chunk's cells are assigned
Start == StartWith(AllAir)

\* usize::try_into::<u32>()
TryIntoU32Low8(n) == Some(n % 256)

TryIntoU32(n) == IF n \div 65536 < 65536 THEN Some(n) ELSE None

\* the WGSL storage layout of [Vector3<f32>; 6]: six elements of stride 16
VerticesSize == 96

\* the WGSL storage layout of Face: three vec3<f32> at 0, 16 and 32, rounded
\* up to the alignment 16
FaceSize == 48

\* the bytes storage_buffer.write(&face_data) writes: the vertices, then the
\* runtime-sized array, which takes the room of one element when it is empty
FacesSize(face_data) ==
    VerticesSize + FaceSize * (IF Len(face_data.faces) = 0 THEN 1 ELSE Len(face_data.faces))

Alignment == 256

\* (len + (256 - 1)) & !(256 - 1)
AlignUpNone(len) == len

AlignUp(len) == (len + (Alignment - 1)) - ((len + (Alignment - 1)) % Alignment)

Half == R(1, 2)

\* the six face! invocations of Game::new, in their order
InvocationsFrontFirst ==
    <<[face |-> "front", normal |-> vec3(One, Zero, Zero)],
      [face |-> "back", normal |-> vec3(Neg(One), Zero, Zero)],
      [face |-> "top", normal |-> vec3(Zero, One, Zero)],
      [face |-> "bottom", normal |-> vec3(Zero, Neg(One), Zero)],
      [face |-> "right", normal |-> vec3(Zero, Zero, One)],
      [face |-> "left", normal |-> vec3(Zero, Zero, Neg(One))]>>

Invocations ==
    <<[face |-> "back", normal |-> vec3(Neg(One), Zero, Zero)],
      [face |-> "front", normal |-> vec3(One, Zero, Zero)],
      [face |-> "top", normal |-> vec3(Zero, One, Zero)],
      [face |-> "bottom", normal |-> vec3(Zero, Neg(One), Zero)],
      [face |-> "left", normal |-> vec3(Zero, Zero, Neg(One))],
      [face |-> "right", normal |-> vec3(Zero, Zero, One)]>>

\* the $vertices of each invocation, in units of 0.5
Vertices(face) ==
    CASE face = "back" ->
            << <<-1, -1, -1>>, <<-1, 1, -1>>, <<-1, -1, 1>>,
               <<-1, -1, 1>>, <<-1, 1, -1>>, <<-1, 1, 1>> >>
      [] face = "front" ->
            << <<1, 1, -1>>, <<1, -1, -1>>, <<1, -1, 1>>,
               <<1, 1, -1>>, <<1, -1, 1>>, <<1, 1, 1>> >>
      [] face = "top" ->
            << <<-1, 1, 1>>, <<-1, 1, -1>>, <<1, 1, -1>>,
               <<-1, 1, 1>>, <<1, 1, -1>>, <<1, 1, 1>> >>
      [] face = "bottom" ->
            << <<-1, -1, -1>>, <<-1, -1, 1>>, <<1, -1, -1>>,
               <<1, -1, -1>>, <<-1, -1, 1>>, <<1, -1, 1>> >>
      [] face = "left" ->
            << <<-1, 1, -1>>, <<-1, -1, -1>>, <<1, -1, -1>>,
               <<-1, 1, -1>>, <<1, -1, -1>>, <<1, 1, -1>> >>
      [] face = "right" ->
            << <<-1, -1, 1>>, <<-1, 1, 1>>, <<1, -1, 1>>,
               <<1, -1, 1>>, <<-1, 1, 1>>, <<1, 1, 1>> >>

VertexTemplate(face) ==
    [i \in 1 .. 6 |->
        vec3(Mul(F32(Vertices(face)[i][1]), Half), Mul(F32(Vertices(face)[i][2]), Half),
             Mul(F32(Vertices(face)[i][3]), Half))]

\* the Face built from one (position, block) of a face list; the block is
\* never Air (unreachable!())
FaceOf(entry, normal) ==
    [position |-> vec3(F32(entry[1][1]), F32(entry[1][2]), F32(entry[1][3])),
     normal |-> normal,
     color |-> vec3(R(1, 5), R(1, 5), R(1, 5))]

(***************************************************************************)
(* Game::new: the chunk, its faces and the packed buffer                   *)
(***************************************************************************)
InitChunk == pc = "chunk" /\ Start

\* chunk.blocks[x][y][z] = block
SetBlock(x, y, z, block) ==
    /\ pc = "chunk"
    /\ LET b2 == [blocks EXCEPT ![x][y][z] = block]
       IN  /\ StoneCount(b2) <= MaxStones
           /\ blocks' = b2
    /\ UNCHANGED <<pc, faces, buffer, face_infos, composed, gameVars, ticks, call>>

\* let faces = chunk.generate_faces();
GenerateFaces ==
    /\ pc = "chunk"
    /\ faces' = generate_faces(blocks)
    /\ pc' = "pack"
    /\ UNCHANGED <<blocks, buffer, face_infos, composed, gameVars, ticks, call>>

\* the next face! invocation
FaceMacro ==
    /\ pc = "pack"
    /\ LET inv == Invocations[Len(face_infos) + 1]
           start_offset == TryIntoU32(buffer.len)
           list == faces[inv.face]
           face_data == [vertices |-> VertexTemplate(inv.face),
                         faces |-> [i \in 1 .. Len(list) |-> FaceOf(list[i], inv.normal)]]
           count == TryIntoU32(Len(face_data.faces))
           end == start_offset.value + FacesSize(face_data)
           written_len == IF end > buffer.len THEN end ELSE buffer.len
       IN  IF \E i \in 1 .. Len(list) : list[i][2] = Air
           THEN pc' = "panicked" /\ UNCHANGED <<buffer, face_infos>>
           ELSE IF ~start_offset.some \/ ~count.some
           THEN pc' = "failed" /\ UNCHANGED <<buffer, face_infos>>
           ELSE /\ face_infos' = Append(face_infos,
                        [start_offset |-> start_offset.value, count |-> count.value])
                /\ buffer' = [len |-> AlignUp(written_len),
                              written |-> Append(buffer.written,
                                  [face |-> inv.face, offset |-> start_offset.value,
                                   data |-> face_data])]
                /\ pc' = IF Len(face_infos) + 1 = Len(Invocations) THEN "done" ELSE "pack"
    /\ UNCHANGED <<blocks, faces, composed, gameVars, ticks, call>>

\* wgpu::BufferSize::new(faces_storage_buffer.size() / face_infos.len()): the
\* buffer is created from the packed bytes, whose length is a multiple of 4,
\* so its size is that length; a size of 0 binds the rest of the buffer
BindingSize(size, records) ==
    IF size \div records = 0 THEN size ELSE size \div records

\* device.create_bind_group for the vertices and faces, after the six blocks
\* are packed
CreateBindGroup ==
    /\ pc = "done"
    /\ call' = [op |-> "create_bind_group", offset |-> 0,
                size |-> BindingSize(buffer.len, Len(face_infos))]
    /\ pc' = "bound"
    /\ UNCHANGED <<newVars, composed, gameVars, ticks>>

NextChunk ==
    \/ \E c \in SampleCells, block \in Block : SetBlock(c[1], c[2], c[3], block)
    \/ GenerateFaces

\* the mesher on its own
SpecChunk == InitChunk /\ [][NextChunk]_vars

Next ==
    \/ \E c \in NewCells, block \in Block : SetBlock(c[1], c[2], c[3], block)
    \/ GenerateFaces
    \/ FaceMacro
    \/ CreateBindGroup

\* Game::new from the chunk to the packed buffer
Spec == InitChunk /\ [][Next]_vars

(***************************************************************************)
(* Chunk::get_block called by the chunk's owner                            *)
(***************************************************************************)
\* the u8 arguments tried: inside the chunk, the first index outside it, and
\* the largest u8
U8Samples == {0, 1, 15, 16, U8Max}

\* let r = chunk.get_block(x, y, z);
GetBlock(x, y, z) ==
    /\ pc = "chunk"
    /\ call' = [op |-> "get_block", x |-> x, y |-> y, z |-> z,
                ret |-> get_block(blocks, x, y, z)]
    /\ pc' = "queried"
    /\ UNCHANGED <<newVars, composed, gameVars, ticks>>

NextGetBlock ==
    \/ \E c \in SampleCells, block \in Block : SetBlock(c[1], c[2], c[3], block)
    \/ \E x \in U8Samples, y \in U8Samples, z \in U8Samples : GetBlock(x, y, z)

SpecGetBlock == InitChunk /\ [][NextGetBlock]_vars

(***************************************************************************)
(* Calls of the algebra of math.rs on sample arguments                     *)
(***************************************************************************)
Sqrt2Half == <<0, 1, 0, 0, 2>>

SampleVectors ==
    {vec3(Zero, Zero, Zero), vec3(One, Zero, Zero), vec3(R(-2, 1), Zero, Zero),
     vec3(Zero, Half, Zero), vec3(One, Two, R(3, 1)), vec3(R(-1, 2), R(3, 1), Neg(One)),
     vec3(Zero, Zero, R(-4, 1)), vec3(R(1, 3), R(1, 3), R(1, 3)),
     vec3(Sqrt2Half, Zero, Neg(Sqrt2Half)), vec3(Two, Neg(One), Half)}

\* points of weight 1, and points of other weights, 0 among them
SamplePoints ==
    {PointFromVector(v) : v \in SampleVectors} \cup
    {[e012 |-> Zero, e013 |-> Zero, e023 |-> Zero, e123 |-> Zero],
     [e012 |-> Zero, e013 |-> Zero, e023 |-> One, e123 |-> Zero],
     [e012 |-> Neg(One), e013 |-> Two, e023 |-> Zero, e123 |-> Zero],
     [e012 |-> One, e013 |-> Two, e023 |-> R(3, 1), e123 |-> Two],
     [e012 |-> One, e013 |-> Zero, e023 |-> Neg(One), e123 |-> R(-1, 2)]}

InitAlgebra == pc = "algebra" /\ StartWith(NoChunk)

\* let m = Motor::translation(v).apply(Motor::translation(w));
TranslationApply(v, w) ==
    /\ pc = "algebra"
    /\ call' = [op |-> "translation_apply", v |-> v, w |-> w,
                ret |-> apply(translation(v), translation(w))]
    /\ pc' = "queried"
    /\ UNCHANGED <<newVars, composed, gameVars, ticks>>

\* let v: cgmath::Vector3<f32> = p.into();
IntoVector(p) ==
    /\ pc = "algebra"
    /\ call' = [op |-> "into_vector", p |-> p, ret |-> VectorFromPoint(p)]
    /\ pc' = "queried"
    /\ UNCHANGED <<newVars, composed, gameVars, ticks>>

\* the motors points are transformed by: Motor::IDENTITY and translations
SampleMotors == {MotorIdentity} \cup {translation(v) : v \in SampleVectors}

\* let q: cgmath::Vector3<f32> = Point::from(p).transform(m).into();
TransformVector(p, m) ==
    /\ pc = "algebra"
    /\ call' = [op |-> "transform", p |-> p, motor |-> m,
                ret |-> VectorFromPoint(transform(PointFromVector(p), m))]
    /\ pc' = "queried"
    /\ UNCHANGED <<newVars, composed, gameVars, ticks>>

NextAlgebra ==
    \/ \E v \in SampleVectors, w \in SampleVectors : TranslationApply(v, w)
    \/ \E p \in SamplePoints : IntoVector(p)
    \/ \E p \in SampleVectors, m \in SampleMotors : TransformVector(p, m)

SpecAlgebra == InitAlgebra /\ [][NextAlgebra]_vars

(***************************************************************************)
(* Motors composed from translations and rotations                         *)
(***************************************************************************)
Generators ==
    {translation(v) : v \in {vec3(One, Zero, Zero), vec3(Zero, R(-1, 2), Two),
                             vec3(Sqrt2Half, Zero, Neg(Sqrt2Half))}} \cup
    {rotation_xy(a) : a \in SampleAngles} \cup
    {rotation_xz(a) : a \in SampleAngles} \cup
    {rotation_yz(a) : a \in SampleAngles}

\* composed = composed.apply(g);
Compose(g) ==
    /\ pc = "algebra"
    /\ ticks < MaxCompose
    /\ composed' = apply(composed, g)
    /\ ticks' = ticks + 1
    /\ UNCHANGED <<pc, newVars, gameVars, call>>

\* composed = composed.pre_apply(g);
PreCompose(g) ==
    /\ pc = "algebra"
    /\ ticks < MaxCompose
    /\ composed' = pre_apply(composed, g)
    /\ ticks' = ticks + 1
    /\ UNCHANGED <<pc, newVars, gameVars, call>>

\* composed = composed.inverse();
Invert ==
    /\ pc = "algebra"
    /\ composed' = inverse(composed)
    /\ UNCHANGED <<pc, newVars, gameVars, ticks, call>>

\* let r = composed.apply(composed.inverse());
ApplyInverse ==
    /\ pc = "algebra"
    /\ call' = [op |-> "apply_inverse", inv |-> inverse(composed),
                ret |-> apply(composed, inverse(composed))]
    /\ pc' = "queried"
    /\ UNCHANGED <<newVars, composed, gameVars, ticks>>

NextMotor ==
    \/ \E g \in Generators : Compose(g)
    \/ \E g \in Generators : PreCompose(g)
    \/ Invert
    \/ ApplyInverse

SpecMotor == InitAlgebra /\ [][NextMotor]_vars

(***************************************************************************)
(* Game: key events, focus loss and update                                 *)
(***************************************************************************)
\* the KeyCodes Game::update looks for
Keys == {"KeyW", "KeyS", "KeyA", "KeyD", "KeyQ", "KeyE"}

\* the delta times of the frames, in seconds
DtSamples == {Zero, Half}

InitGame == pc = "running" /\ StartWith(NoChunk)

\* Game::key_event, a key pressed: the key joins pressed_keys
KeyPressed(k) ==
    /\ pc = "running"
    /\ pressed_keys' = pressed_keys \cup {k}
    /\ focus' = "focused"
    /\ UNCHANGED <<pc, newVars, composed, camera, ticks, call>>

\* Game::key_event, a key released: the key leaves pressed_keys
KeyReleased(k) ==
    /\ pc = "running"
    /\ pressed_keys' = pressed_keys \ {k}
    /\ UNCHANGED <<pc, newVars, composed, camera, focus, ticks, call>>

\* Game::lost_focus
LostFocusNoClear ==
    /\ pc = "running"
    /\ focus' = "lost"
    /\ UNCHANGED <<pc, newVars, composed, camera, pressed_keys, ticks, call>>

LostFocus ==
    /\ pc = "running"
    /\ pressed_keys' = {}
    /\ focus' = "lost"
    /\ UNCHANGED <<pc, newVars, composed, camera, ticks, call>>

\* the movement vector Game::update sums from the pressed keys
update_movement_s_adds(keys) ==
    LET m0 == vec3(Zero, Zero, Zero)
        m1 == IF "KeyW" \in keys THEN [m0 EXCEPT !.x = Add(@, One)] ELSE m0
        m2 == IF "KeyS" \in keys THEN [m1 EXCEPT !.x = Add(@, One)] ELSE m1
        m3 == IF "KeyA" \in keys THEN [m2 EXCEPT !.z = Sub(@, One)] ELSE m2
        m4 == IF "KeyD" \in keys THEN [m3 EXCEPT !.z = Add(@, One)] ELSE m3
        m5 == IF "KeyQ" \in keys THEN [m4 EXCEPT !.y = Sub(@, One)] ELSE m4
        m6 == IF "KeyE" \in keys THEN [m5 EXCEPT !.y = Add(@, One)] ELSE m5
    IN  m6

update_movement(keys) ==
    LET m0 == vec3(Zero, Zero, Zero)
        m1 == IF "KeyW" \in keys THEN [m0 EXCEPT !.x = Add(@, One)] ELSE m0
        m2 == IF "KeyS" \in keys THEN [m1 EXCEPT !.x = Sub(@, One)] ELSE m1
        m3 == IF "KeyA" \in keys THEN [m2 EXCEPT !.z = Sub(@, One)] ELSE m2
        m4 == IF "KeyD" \in keys THEN [m3 EXCEPT !.z = Add(@, One)] ELSE m3
        m5 == IF "KeyQ" \in keys THEN [m4 EXCEPT !.y = Sub(@, One)] ELSE m4
        m6 == IF "KeyE" \in keys THEN [m5 EXCEPT !.y = Add(@, One)] ELSE m5
    IN  m6

\* cgmath: Vector3 * f32, magnitude2, magnitude, normalize
Scale(v, k) == vec3(Mul(v.x, k), Mul(v.y, k), Mul(v.z, k))

magnitude2(v) == Add(Add(Mul(v.x, v.x), Mul(v.y, v.y)), Mul(v.z, v.z))

magnitude(v) == Sqrt(magnitude2(v))

normalize(v) == Scale(v, FDiv(One, magnitude(v)))

CAMERA_SPEED == 3

\* Motor::translation(movement.normalize() * CAMERA_SPEED * ts)
update_translation_unnormalized(movement, ts) ==
    translation(Scale(Scale(movement, F32(CAMERA_SPEED)), ts))

update_translation(movement, ts) ==
    translation(Scale(Scale(normalize(movement), F32(CAMERA_SPEED)), ts))

\* Game::update; dt.as_secs_f32() is dt
UpdateRefreshesAspect(dt) ==
    /\ pc = "running"
    /\ ticks < MaxTicks
    /\ LET ts == dt
           movement == update_movement(pressed_keys)
       IN  camera' =
               IF Gt(magnitude2(movement), R(1, 1000))
               THEN [camera EXCEPT !.transform = apply(@, update_translation(movement, ts)),
                                   !.aspect = FDiv(F32(WindowSize.width), F32(WindowSize.height))]
               ELSE camera
    /\ ticks' = ticks + 1
    /\ call' = [op |-> "update", dt |-> dt]
    /\ focus' = IF focus = "focused" THEN "focused" ELSE "lost_updated"
    /\ UNCHANGED <<pc, newVars, composed, pressed_keys>>

Update(dt) ==
    /\ pc = "running"
    /\ ticks < MaxTicks
    /\ LET ts == dt
           movement == update_movement(pressed_keys)
       IN  camera' =
               IF Gt(magnitude2(movement), R(1, 1000))
               THEN [camera EXCEPT !.transform = apply(@, update_translation(movement, ts))]
               ELSE camera
    /\ ticks' = ticks + 1
    /\ call' = [op |-> "update", dt |-> dt]
    /\ focus' = IF focus = "focused" THEN "focused" ELSE "lost_updated"
    /\ UNCHANGED <<pc, newVars, composed, pressed_keys>>

\* the sizes of the Resized events: a minimised window, and a 16:9 one
ResizeSamples == {<<0, 0>>, <<1920, 1080>>}

\* u32::max
Max(a, b) == IF a >= b THEN a ELSE b

\* Game::resize; the surface and the depth buffer are not part of the model
Resize(w, h) ==
    /\ pc = "running"
    /\ LET width == Max(w, 1)
           height == Max(h, 1)
       IN  camera' = [camera EXCEPT !.aspect = FDiv(F32(width), F32(height))]
    /\ UNCHANGED <<pc, newVars, composed, pressed_keys, focus, ticks, call>>

NextGame ==
    \/ \E k \in Keys : KeyPressed(k)
    \/ \E k \in Keys : KeyReleased(k)
    \/ LostFocus
    \/ \E dt \in DtSamples : Update(dt)

SpecGame == InitGame /\ [][NextGame]_vars

NextWindow ==
    \/ NextGame
    \/ \E size \in ResizeSamples : Resize(size[1], size[2])

\* the event loop with the window's Resized events
SpecWindow == InitGame /\ [][NextWindow]_vars

(***************************************************************************)
(* Properties of the mesher                                                *)
(***************************************************************************)
Directions == {"front", "back", "top", "bottom", "right", "left"}

\* the step to the neighbour each direction label tests
Step(d) ==
    CASE d = "front"  -> <<1, 0, 0>>
      [] d = "back"   -> <<-1, 0, 0>>
      [] d = "top"    -> <<0, 1, 0>>
      [] d = "bottom" -> <<0, -1, 0>>
      [] d = "right"  -> <<0, 0, 1>>
      [] d = "left"   -> <<0, 0, -1>>

Cells == Coords \X Coords \X Coords

BlockAt(c) == blocks[c[1]][c[2]][c[3]]

\* the neighbour of cell c in direction d is outside [0,16) or is Air
Open(c, d) ==
    LET n == <<c[1] + Step(d)[1], c[2] + Step(d)[2], c[3] + Step(d)[3]>>
    IN  \/ n \notin Cells
        \/ BlockAt(n) = Air

Entries(list) == {list[i] : i \in 1 .. Len(list)}

\* C1: once the faces are generated, each direction's list holds (position,
\* block) for exactly the non-Air cells whose neighbour in that direction is
\* outside [0,16) or Air (front x+1, back x-1, top y+1, bottom y-1, right
\* z+1, left z-1); an Air cell is in no list.
C1_FacesExactlyExposed ==
    pc # "chunk" =>
        \A d \in Directions :
            Entries(faces[d]) =
                {<<c, BlockAt(c)>> : c \in {e \in Cells : BlockAt(e) # Air /\ Open(e, d)}}

\* a chunk where a face is culled by a Stone neighbour, one is exposed to an
\* Air neighbour and one to the outside of the chunk on each side
C1_Witness ==
    /\ pc = "pack"
    /\ blocks[1][1][1] = Stone /\ blocks[2][1][1] = Stone /\ blocks[0][1][1] = Air
    /\ blocks[15][15][15] = Stone /\ blocks[1][1][0] = Stone
    /\ <<<<1, 1, 1>>, Stone>> \in Entries(faces.back)
    /\ <<<<1, 1, 1>>, Stone>> \notin Entries(faces.front)
    /\ <<<<15, 15, 15>>, Stone>> \in Entries(faces.front)
    /\ <<<<1, 1, 0>>, Stone>> \in Entries(faces.left)

\* C2: a get_block call returns None when a coordinate is >= 16 and the
\* block stored at [x][y][z] otherwise; it has no other outcome.
C2_GetBlockBounds ==
    call.op = "get_block" =>
        IF call.x >= ChunkSize \/ call.y >= ChunkSize \/ call.z >= ChunkSize
        THEN call.ret = None
        ELSE call.ret = Some(blocks[call.x][call.y][call.z])

\* calls with a coordinate of 16 and of 255, and a call that finds a Stone
C2_Witness ==
    /\ call.op = "get_block"
    /\ \/ call.x = 16 /\ call.y = 1 /\ call.z = U8Max /\ call.ret = None
       \/ call.x = 1 /\ call.y = 1 /\ call.z = 1 /\ call.ret = Some(Stone)

LexLess(p, q) ==
    \/ p[1] < q[1]
    \/ p[1] = q[1] /\ p[2] < q[2]
    \/ p[1] = q[1] /\ p[2] = q[2] /\ p[3] < q[3]

\* C10: each face list is in grid iteration order: its positions strictly
\* increase in lexicographic (x, y, z) order, so none occurs twice.
C10_ListsInIterationOrder ==
    \A d \in Directions :
        \A i \in 1 .. Len(faces[d]) - 1 : LexLess(faces[d][i][1], faces[d][i + 1][1])

C10_Witness ==
    /\ pc = "pack"
    /\ Len(faces.top) >= 4
    /\ faces.top[1][1] = <<0, 1, 1>>
    /\ faces.top[Len(faces.top)][1] = <<15, 15, 15>>

\* the number of entries of direction d's list that carry the position c
FacesOf(c, d) == Cardinality({i \in 1 .. Len(faces[d]) : faces[d][i][1] = c})

\* the six neighbours of cell c are inside the chunk and none is Air
Buried(c) == \A d \in Directions : ~Open(c, d)

\* each of the six neighbours of cell c is outside the chunk or Air
Isolated(c) == \A d \in Directions : Open(c, d)

\* C11: once the faces are generated, a non-Air cell whose six neighbours are
\* all non-Air is in no list, and a non-Air cell whose six neighbours are each
\* Air or out of range is in every one of the six lists exactly once.
C11_BuriedNoneIsolatedSix ==
    pc # "chunk" =>
        \A c \in {e \in Cells : BlockAt(e) # Air} :
                /\ Buried(c) => \A d \in Directions : FacesOf(c, d) = 0
                /\ Isolated(c) => \A d \in Directions : FacesOf(c, d) = 1

\* (1,1,1) is buried under its six neighbours, and the corner (15,15,15) has
\* three Air neighbours and three outside the chunk
C11_Witness ==
    /\ pc = "pack"
    /\ BlockAt(<<1, 1, 1>>) # Air /\ Buried(<<1, 1, 1>>)
    /\ \A d \in Directions : FacesOf(<<1, 1, 1>>, d) = 0
    /\ BlockAt(<<15, 15, 15>>) # Air /\ Isolated(<<15, 15, 15>>)
    /\ \A d \in Directions : FacesOf(<<15, 15, 15>>, d) = 1

Positions(list) == {list[i][1] : i \in 1 .. Len(list)}

\* C18: opposite direction lists have equal length: front and back, top and
\* bottom, right and left.
C18_OppositeListsEqualLength ==
    /\ Len(faces.front) = Len(faces.back)
    /\ Len(faces.top) = Len(faces.bottom)
    /\ Len(faces.right) = Len(faces.left)

\* lists of two and more faces, the opposite lists holding different cells,
\* with a cell on the lower x face of the chunk and one on its upper
C18_Witness ==
    /\ pc = "pack"
    /\ Len(faces.front) >= 3 /\ Len(faces.top) >= 2 /\ Len(faces.top) < Len(faces.front)
    /\ Positions(faces.front) # Positions(faces.back)
    /\ Positions(faces.top) # Positions(faces.bottom)
    /\ <<0, 1, 1>> \in Positions(faces.back)
    /\ <<15, 15, 15>> \in Positions(faces.front)

(***************************************************************************)
(* Properties of the packer                                                *)
(***************************************************************************)
\* C3: every start_offset recorded in face_infos is a multiple of 256.
C3_StartOffsetsAligned ==
    \A i \in 1 .. Len(face_infos) : face_infos[i].start_offset % 256 = 0

\* all six blocks are packed, from lists of different lengths
C3_Witness ==
    /\ pc = "done"
    /\ Len(face_infos) = 6
    /\ face_infos[2].start_offset = 512
    /\ face_infos[6].start_offset > 1536
    /\ \E i \in 1 .. 6 : face_infos[i].count >= 5

\* the block packed k-th and its record are those of direction d: the block
\* holds d's vertex template and d's faces, each with d's normal, and the
\* record holds the block's offset and the number of d's faces
PackedAs(k, d) ==
    /\ buffer.written[k].face = d
    /\ buffer.written[k].data.vertices = VertexTemplate(d)
    /\ Len(buffer.written[k].data.faces) = Len(faces[d])
    /\ \A i \in 1 .. Len(faces[d]) :
          /\ buffer.written[k].data.faces[i].normal =
                vec3(F32(Step(d)[1]), F32(Step(d)[2]), F32(Step(d)[3]))
          /\ buffer.written[k].data.faces[i].position =
                vec3(F32(faces[d][i][1][1]), F32(faces[d][i][1][2]), F32(faces[d][i][1][3]))
    /\ face_infos[k] = [start_offset |-> buffer.written[k].offset, count |-> Len(faces[d])]

\* C4 as claimed: the blocks and their records are in the order front, back,
\* top, bottom, right, left.
C4_TableOrder ==
    \A k \in 1 .. Len(face_infos) :
        PackedAs(k, <<"front", "back", "top", "bottom", "right", "left">>[k])

\* C4 as amended: the blocks and their records are in the order back, front,
\* top, bottom, left, right.
C4_InvocationOrder ==
    /\ Len(buffer.written) = Len(face_infos)
    /\ \A k \in 1 .. Len(face_infos) :
          PackedAs(k, <<"back", "front", "top", "bottom", "left", "right">>[k])

\* all six blocks are packed and the front and back blocks differ
C4_Witness ==
    /\ pc = "done"
    /\ Len(face_infos) = 6
    /\ Len(faces.front) >= 2
    /\ buffer.written[1].data.faces # buffer.written[2].data.faces

\* the end of the k-th block written: its offset plus the bytes of its
\* vertices and faces
BlockEnd(k) == buffer.written[k].offset + FacesSize(buffer.written[k].data)

\* the records and blocks so far: offsets strictly increasing, each block at
\* its record's offset and ending at or before the next record's offset (the
\* last one within the buffer)
C12_BlocksDisjoint ==
    /\ Len(buffer.written) = Len(face_infos)
    /\ \A i \in 1 .. Len(face_infos), j \in 1 .. Len(face_infos) :
          i < j => face_infos[i].start_offset < face_infos[j].start_offset
    /\ \A k \in 1 .. Len(face_infos) :
          /\ buffer.written[k].offset = face_infos[k].start_offset
          /\ BlockEnd(k) <= (IF k < Len(face_infos) THEN face_infos[k + 1].start_offset
                                                    ELSE buffer.len)

\* a step that pushes a record pushes the buffer length it started from
C12_RecordsCurrentLength ==
    Len(face_infos') = Len(face_infos) + 1 =>
        face_infos'[Len(face_infos')].start_offset = buffer.len

\* C12: the start offsets strictly increase in record order, each is the
\* buffer length at the moment its block is appended, and each block ends at
\* or before the next block's start offset, so no two blocks overlap.
C12_OffsetsIncreaseNoOverlap == [](C12_BlocksDisjoint) /\ [][C12_RecordsCurrentLength]_vars

\* six blocks packed, one of them longer than 256 bytes and one followed by
\* padding
C12_Witness ==
    /\ pc = "done"
    /\ Len(face_infos) = 6
    /\ face_infos[1].start_offset = 0
    /\ \E k \in 1 .. 5 : face_infos[k + 1].start_offset - face_infos[k].start_offset >= 512
    /\ \E k \in 1 .. 5 : BlockEnd(k) < face_infos[k + 1].start_offset

\* the range bound for the k-th record's draw: the bind group's size from
\* the record's start_offset, the dynamic offset of set_bind_group
BoundEnd(k) == face_infos[k].start_offset + call.size

Count(k, keys) == IF k \in keys THEN 1 ELSE 0

\* the summed movement: +x forward (W), -x backward (S), +z (D), -z (A),
\* +y (E), -y (Q)
MoveX(keys) == Count("KeyW", keys) - Count("KeyS", keys)

MoveY(keys) == Count("KeyE", keys) - Count("KeyQ", keys)

MoveZ(keys) == Count("KeyD", keys) - Count("KeyA", keys)

MoveZero(keys) == MoveX(keys) = 0 /\ MoveY(keys) = 0 /\ MoveZ(keys) = 0

\* normalize(movement) * 3 * dt, each component k / sqrt(x^2 + y^2 + z^2) * 3 * dt
MoveStep(keys, dt) ==
    LET len == Sqrt(F32(MoveX(keys) * MoveX(keys) + MoveY(keys) * MoveY(keys)
                        + MoveZ(keys) * MoveZ(keys)))
        c(k) == Mul(Mul(FDiv(F32(k), len), R(3, 1)), dt)
    IN  vec3(c(MoveX(keys)), c(MoveY(keys)), c(MoveZ(keys)))

\* C5: an update whose summed movement is not zero sets the transform to
\* current_transform.apply(Motor::translation(normalize(movement) * 3 * dt)).
C5_UpdateComposesOnTheRight ==
    [][(ticks' = ticks + 1 /\ ~MoveZero(pressed_keys)) =>
        camera'.transform =
            apply(camera.transform, translation(MoveStep(pressed_keys, call'.dt)))]_vars

\* after an update of half a second with W and D held: the camera has moved
\* by 3/2 * (1, 0, 1) / sqrt 2 from (-2, 0, 0)
C5_Witness ==
    /\ ticks = 1
    /\ pressed_keys = {"KeyW", "KeyD"}
    /\ call = [op |-> "update", dt |-> Half]
    /\ camera.transform.e01 = <<8, -3, 0, 0, 8>>
    /\ camera.transform.e03 = <<0, -3, 0, 0, 8>>
    /\ camera.transform.e02 = Zero

\* C6: an update whose summed movement is zero (no flag active, or every
\* active flag cancelled by its opposite) leaves the transform unchanged.
C6_ZeroMovementKeepsTransform ==
    [][(ticks' = ticks + 1 /\ MoveZero(pressed_keys)) =>
        camera'.transform = camera.transform]_vars

\* after an update of half a second with W and S held, the camera is where
\* Game::new put it
C6_Witness ==
    /\ ticks = 1
    /\ pressed_keys = {"KeyW", "KeyS"}
    /\ call = [op |-> "update", dt |-> Half]
    /\ camera.transform = translation(vec3(R(-2, 1), Zero, Zero))

\* after a focus loss, until a key is pressed, no movement flag is active
C14_NoFlagWhileUnfocused == focus # "focused" => pressed_keys = {}

\* an update after a focus loss, before a key is pressed, keeps the transform
C14_UpdateKeepsTransform ==
    (focus # "focused" /\ ticks' = ticks + 1) => camera'.transform = camera.transform

\* C14: after lost_focus the set of active movement flags is empty, whatever
\* keys were held, and every update between a focus loss and the next key
\* press leaves the camera transform unchanged.
C14_FocusLossStopsMovement ==
    [](C14_NoFlagWhileUnfocused) /\ [][C14_UpdateKeepsTransform]_vars

\* the focus was lost and then an update of half a second ran: the camera is
\* where Game::new put it
C14_Witness ==
    /\ focus = "lost_updated"
    /\ ticks = 1
    /\ pressed_keys = {}
    /\ call = [op |-> "update", dt |-> Half]
    /\ camera.transform = NewCamera.transform

CameraLens(c) == <<c.aspect, c.near_clip, c.far_clip>>

\* an update keeps aspect, near_clip and far_clip
C15_UpdateKeepsLens == ticks' = ticks + 1 => CameraLens(camera') = CameraLens(camera)

\* a step that changes aspect, near_clip or far_clip is a resize
C15_OnlyResizeChangesLens ==
    CameraLens(camera') # CameraLens(camera) =>
        \E size \in ResizeSamples : Resize(size[1], size[2])

\* C15: update leaves the camera's aspect, near_clip and far_clip unchanged
\* for every set of flags and delta time, and across updates and resizes
\* these values change only in resize.
C15_LensChangesOnlyInResize ==
    [][C15_UpdateKeepsLens]_vars /\ [][C15_OnlyResizeChangesLens]_vars

\* the window was resized to 1920x1080 and an update moved the camera
C15_Witness ==
    /\ ticks >= 1
    /\ camera.aspect = R(16, 9)
    /\ camera.near_clip = R(1, 100) /\ camera.far_clip = R(100, 1)
    /\ camera.transform # NewCamera.transform

\* C17: the camera transform is always a unit pure translation: s = 1,
\* e12 = e13 = e23 = 0 and e0123 = 0.
C17_CameraIsPureTranslation ==
    /\ camera.transform.s = One
    /\ camera.transform.e12 = Zero /\ camera.transform.e13 = Zero
    /\ camera.transform.e23 = Zero
    /\ camera.transform.e0123 = Zero

\* after keys, a resize to a minimised window, an update along the three
\* axes and a focus loss
C17_Witness ==
    /\ ticks = 1
    /\ focus = "lost"
    /\ camera.aspect = One
    /\ camera.transform.e01 # NewCamera.transform.e01
    /\ camera.transform.e02 # Zero /\ camera.transform.e03 # Zero

(***************************************************************************)
(* Properties of the algebra                                               *)
(***************************************************************************)
\* C7: translation(v).apply(translation(w)) is translation(v + w), component
\* for component: scalar 1, e01, e02, e03 = -(v + w) / 2, all else 0.
C7_TranslationsAdd ==
    call.op = "translation_apply" =>
        call.ret = [s |-> One, e12 |-> Zero, e13 |-> Zero, e23 |-> Zero,
                    e01 |-> Mul(Add(call.v.x, call.w.x), R(-1, 2)),
                    e02 |-> Mul(Add(call.v.y, call.w.y), R(-1, 2)),
                    e03 |-> Mul(Add(call.v.z, call.w.z), R(-1, 2)),
                    e0123 |-> Zero]

C7_Witness ==
    /\ call.op = "translation_apply"
    /\ call.v = vec3(One, Two, R(3, 1))
    /\ call.w = vec3(R(-1, 2), R(3, 1), Neg(One))
    /\ call.ret.e01 = R(-1, 4) /\ call.ret.e02 = R(-5, 2) /\ call.ret.e03 = Neg(One)

\* C13: Point::from(p) transformed by Motor::translation(v) and converted
\* back is p + v, and transformed by Motor::IDENTITY it is p.
C13_TranslationDisplacesPoints ==
    call.op = "transform" =>
        /\ \A v \in SampleVectors :
              call.motor = translation(v) =>
                  call.ret = vec3(Add(call.p.x, v.x), Add(call.p.y, v.y), Add(call.p.z, v.z))
        /\ call.motor = MotorIdentity => call.ret = call.p

\* (1, 2, 3) displaced by (-1/2, 3, -1)
C13_Witness ==
    /\ call.op = "transform"
    /\ call.p = vec3(One, Two, R(3, 1))
    /\ call.motor = translation(vec3(R(-1, 2), R(3, 1), Neg(One)))
    /\ call.ret = vec3(Half, R(5, 1), Two)

\* the norm conditions of a unit motor: s^2 + e12^2 + e13^2 + e23^2 = 1 and
\* s*e0123 - e12*e03 + e13*e02 - e23*e01 = 0
IsUnit(m) ==
    /\ Sum(<<Mul(m.s, m.s), Mul(m.e12, m.e12), Mul(m.e13, m.e13), Mul(m.e23, m.e23)>>) = One
    /\ Sum(<<Mul(m.s, m.e0123), Neg(Mul(m.e12, m.e03)), Mul(m.e13, m.e02),
             Neg(Mul(m.e23, m.e01))>>) = Zero

\* C8: for a unit motor m, m.apply(m.inverse()) is IDENTITY, and the inverse
\* has the six bivector components negated, the scalar and pseudoscalar kept.
C8_InverseComposesToIdentity ==
    (call.op = "apply_inverse" /\ IsUnit(composed)) =>
        /\ call.ret = [s |-> One, e12 |-> Zero, e13 |-> Zero, e23 |-> Zero,
                       e01 |-> Zero, e02 |-> Zero, e03 |-> Zero, e0123 |-> Zero]
        /\ call.inv.s = composed.s /\ call.inv.e0123 = composed.e0123
        /\ call.inv.e12 = Neg(composed.e12) /\ call.inv.e13 = Neg(composed.e13)
        /\ call.inv.e23 = Neg(composed.e23) /\ call.inv.e01 = Neg(composed.e01)
        /\ call.inv.e02 = Neg(composed.e02) /\ call.inv.e03 = Neg(composed.e03)

\* a unit motor that rotates and translates, with a pseudoscalar part
C8_Witness ==
    /\ call.op = "apply_inverse"
    /\ IsUnit(composed)
    /\ composed.e23 # Zero /\ composed.e01 # Zero /\ composed.e0123 # Zero
    /\ composed.s # Zero

\* C9 as claimed: converting a Point of weight e123 = 0 to a vector fails
\* with DegenerateTransform; no vector is returned.
C9_ZeroWeightFails ==
    (call.op = "into_vector" /\ call.p.e123 = Zero) =>
        call.ret = [error |-> "DegenerateTransform"]

=============================================================================
